---- MODULE Spec2Model ----
(***************************************************************************)
(* Oryol: the D3D11 shader factory (Gfx/d3d11/d3d11ShaderFactory.cc) as a  *)
(* state machine.  One factory, one renderer with its device, a few shader *)
(* resources, and a caller that may invoke any operation between calls.    *)
(* SetupResource and DestroyResource are modelled statement by statement   *)
(* (one step per device call), the program counter forcing the order.      *)
(* The GPUParticles sample (Samples/GPUParticles/GPUParticles.cc) is a     *)
(* second state machine, one step per frame, with a specification of its   *)
(* own.                                                                    *)
(***************************************************************************)
EXTENDS Integers, Sequences, FiniteSets, TLC

\* ---------------------------------------------------------------- bounds
NumRes == 2
MaxObjs == 4
MaxByteSize == 34
MaxFrames == 10490

\* ------------------------------------------------------------- constants
InvalidIndex == -1
CBAlign == 16
Null == 0

Res == 1..NumRes

\* GPUParticles.cc, lines 16-22.
NumParticleBuffers == 2
NumParticlesEmittedPerFrame == 100
NumParticlesX == 1024
NumParticlesY == 1024
MaxNumParticles == NumParticlesX * NumParticlesY
ParticleBufferWidth == 2 * NumParticlesX
ParticleBufferHeight == NumParticlesY

\* ---------------------------------------------------- ShaderSetup values
Prog(mask, vsPtr, psPtr) == [mask |-> mask, vsPtr |-> vsPtr, psPtr |-> psPtr]

Block(slot, stage, byteSize) == [slot |-> slot, stage |-> stage, byteSize |-> byteSize]

MkSetup(progs, ubs) == [progs |-> progs, ubs |-> ubs]

EmptySetup == MkSetup(<<>>, <<>>)

\* The descriptions the caller hands in.  The first is the scenario of one
\* variant with a 20-byte block on slot 3 and a texture-only block, the
\* second has two variants, the third one variant and no block; the last
\* three break the description's contract (no program, a null bytecode
\* pointer, a zero-sized block on a real slot).
Setups ==
    { MkSetup(<<Prog(1, 11, 12)>>,
              <<Block(3, "FS", 20), Block(InvalidIndex, "FS", 0)>>),
      MkSetup(<<Prog(1, 11, 12), Prog(2, 13, 14)>>, <<>>),
      MkSetup(<<Prog(4, 15, 16)>>, <<>>),
      MkSetup(<<>>, <<Block(1, "VS", 33)>>),
      MkSetup(<<Prog(1, 11, Null)>>, <<>>),
      MkSetup(<<Prog(2, 13, 14)>>, <<Block(2, "FS", 0)>>) }

\* The same one-variant description with one block of every size and kind.
SizeSetups ==
    { MkSetup(<<Prog(1, 11, 12)>>, <<Block(s, "FS", n)>>) :
        s \in {InvalidIndex, 3}, n \in 1..MaxByteSize }

NumPrograms(setup) == Len(setup.progs)

NumUniformBlocks(setup) == Len(setup.ubs)

\* The description's documented contract.
WellFormed(setup) ==
    /\ NumPrograms(setup) > 0
    /\ \A k \in 1..NumPrograms(setup) :
          setup.progs[k].vsPtr # Null /\ setup.progs[k].psPtr # Null
    /\ \A k \in 1..NumUniformBlocks(setup) :
          setup.ubs[k].slot # InvalidIndex => setup.ubs[k].byteSize > 0

\* Device objects one SetupResource call on this description asks for.
NumDeviceCalls(setup) ==
    2 * NumPrograms(setup)
      + Cardinality({k \in 1..NumUniformBlocks(setup) : setup.ubs[k].slot # InvalidIndex})

\* ------------------------------------------------------------ Memory
\* (val + (roundTo - 1)) & ~(roundTo - 1), for a power-of-two roundTo:
\* clearing the low bits removes the remainder.  The byte sizes of the
\* model stay far below the 32-bit width, so the sum does not wrap.
RoundUp(val, roundTo) ==
    LET t == val + (roundTo - 1)
    IN  t - (t % roundTo)

\* ------------------------------------------------------------ state
VARIABLES
    dbg,          \* the build: TRUE when o_assert_dbg is compiled in
    isValid,      \* d3d11ShaderFactory::isValid
    pointers,     \* d3d11ShaderFactory::pointers (the renderer reference)
    d3d11Device,  \* d3d11ShaderFactory::d3d11Device
    renderer,     \* the renderer: its device and its cached shader binding
    shd,          \* the shader resources
    objs,         \* the device objects ever created, by id (1..Len(objs))
    pc,           \* position of the running call, "idle" between calls
    call,         \* the running call: operation, resource, locals, outcome
    log,          \* renderer and device calls made by the running call
    ub,           \* undefined behaviour has been executed
    app           \* GPUParticlesApp: its members and what its last frame did

vars == <<dbg, isValid, pointers, d3d11Device, renderer, shd, objs, pc, call, log, ub, app>>

\* The running call.  The pre* fields keep what the call found on entry:
\* the factory's flag, the resource's entries, the renderer's binding.
NoCall ==
    [op |-> "none", res |-> 0, progIndex |-> 0, i |-> 0, vs |-> Null,
     numProgs |-> 0, numCB |-> 0, result |-> "none", abort |-> "none",
     preValid |-> FALSE, preProgs |-> <<>>, preCBs |-> <<>>,
     preVS |-> Null, prePS |-> Null]

EmptyShader ==
    [Setup |-> EmptySetup, programEntries |-> <<>>, uniformBlockEntries |-> <<>>]

Event(ev, idx, obj, ok, width) ==
    [ev |-> ev, idx |-> idx, obj |-> obj, ok |-> ok, width |-> width]

\* The particle buffers, by index.
Buffers == 0..(NumParticleBuffers - 1)

\* GPUParticlesApp as constructed (lines 41 and 43): no frame run, no
\* particle, no buffer created.  wrote[b] is the frame whose particle state
\* buffer b holds (0: the initial state, -1: none); the fields from
\* readIndex on are what the last frame computed and applied (-1, 0: none).
AppConstructed ==
    [state |-> "Init", frameCount |-> 0, curNumParticles |-> 0,
     particleBuffer |-> [b \in Buffers |-> 0],
     wrote |-> [b \in Buffers |-> -1],
     readIndex |-> -1, drawIndex |-> -1, readFrame |-> -1,
     prevState |-> 0, renderTarget |-> 0, vsTexture |-> 0,
     scissor |-> [x |-> 0, y |-> 0, width |-> 0, height |-> 0],
     instances |-> 0]

\* Constructor: device null, not valid.  The renderer exists with its device
\* and nothing bound; the resources are empty.
Init ==
    /\ dbg \in BOOLEAN
    /\ isValid = FALSE
    /\ pointers = [renderer |-> "null"]
    /\ d3d11Device = "null"
    /\ renderer = [d3d11Device |-> "device",
                   d3d11CurVertexShader |-> Null, d3d11CurPixelShader |-> Null]
    /\ shd = [r \in Res |-> EmptyShader]
    /\ objs = <<>>
    /\ pc = "idle"
    /\ call = NoCall
    /\ log = <<>>
    /\ ub = FALSE
    /\ app = AppConstructed

\* o_assert_dbg is compiled in.
DebugAsserts == dbg

\* A call of op on resource r (0: none) as it is entered.
Entered(op, r) ==
    [NoCall EXCEPT !.op = op, !.res = r, !.preValid = isValid,
                   !.preProgs = IF r \in Res THEN shd[r].programEntries ELSE <<>>,
                   !.preCBs = IF r \in Res THEN shd[r].uniformBlockEntries ELSE <<>>,
                   !.preVS = renderer.d3d11CurVertexShader,
                   !.prePS = renderer.d3d11CurPixelShader]

\* Between calls, with the behaviour still defined: once undefined
\* behaviour has been executed the running call is followed to its end and
\* nothing more is explored.
Idle == pc = "idle" /\ ~ub

\* A failed assertion, or a fault, ends the process.
Abort(kind) ==
    /\ pc' = "aborted"
    /\ call' = [call EXCEPT !.abort = kind]

\* ------------------------------------------------------------ factory
\* Mutant of SetupAssertTrips: the assertion is missing.
SetupAssertMissing == FALSE

\* Line 28.
SetupAssertTrips == DebugAsserts /\ isValid

\* Line 37.
DiscardAssertTrips == DebugAsserts /\ ~isValid

Setup ==
    /\ Idle
    /\ IF SetupAssertTrips
       THEN /\ pc' = "aborted"
            /\ call' = [Entered("Setup", 0) EXCEPT !.abort = "assert_dbg"]
            /\ UNCHANGED <<isValid, pointers, d3d11Device>>
       ELSE /\ isValid' = TRUE
            /\ pointers' = [renderer |-> "renderer"]
            /\ d3d11Device' = renderer.d3d11Device
            /\ call' = Entered("Setup", 0)
            /\ pc' = "done"
    /\ log' = <<>>
    /\ UNCHANGED <<app, dbg, renderer, shd, objs, ub>>

\* Mutant of DiscardedDevice: Discard keeps the device handle.
DiscardedDeviceKept == d3d11Device

\* Line 40: the device handle Discard leaves behind.
DiscardedDevice == "null"

\* Discard looks at the validity flag only: the resources are not within
\* its reach, neither to check nor to release them.
Discard ==
    /\ Idle
    /\ IF DiscardAssertTrips
       THEN /\ pc' = "aborted"
            /\ call' = [Entered("Discard", 0) EXCEPT !.abort = "assert_dbg"]
            /\ UNCHANGED <<isValid, pointers, d3d11Device>>
       ELSE /\ isValid' = FALSE
            /\ pointers' = [renderer |-> "null"]
            /\ d3d11Device' = DiscardedDevice
            /\ call' = Entered("Discard", 0)
            /\ pc' = "done"
    /\ log' = <<>>
    /\ UNCHANGED <<app, dbg, renderer, shd, objs, ub>>

IsValid == isValid

\* Line 22.
DestructorAssertTrips == DebugAsserts /\ isValid

\* ~d3d11ShaderFactory: the factory is gone, no call follows.
Destructor ==
    /\ Idle
    /\ call' = [Entered("~d3d11ShaderFactory", 0)
                  EXCEPT !.abort = IF DestructorAssertTrips THEN "assert_dbg" ELSE "none"]
    /\ pc' = IF DestructorAssertTrips THEN "aborted" ELSE "destructed"
    /\ log' = <<>>
    /\ UNCHANGED <<app, dbg, isValid, pointers, d3d11Device, renderer, shd, objs, ub>>

\* ------------------------------------------------------------ renderer
\* renderer::invalidateShaderState: forget the cached shader binding.
InvalidateShaderState(rnd) ==
    [rnd EXCEPT !.d3d11CurVertexShader = Null, !.d3d11CurPixelShader = Null]

\* Draw submission applies variant k of a populated resource: the renderer
\* binds its stage objects and caches them.
Draw(r, k) ==
    /\ Idle
    /\ k \in 1..Len(shd[r].programEntries)
    /\ renderer' = [renderer EXCEPT
                      !.d3d11CurVertexShader = shd[r].programEntries[k].vs,
                      !.d3d11CurPixelShader = shd[r].programEntries[k].ps]
    /\ UNCHANGED <<app, dbg, isValid, pointers, d3d11Device, shd, objs, pc, call, log, ub>>

\* ------------------------------------------------------------ shader
\* shader::addShaders
AddShaders(s, mask, vs, ps) ==
    [s EXCEPT !.programEntries = Append(@, [mask |-> mask, vs |-> vs, ps |-> ps])]

\* shader::addUniformBlockEntry
AddUniformBlockEntry(s, cb, bindStage, bindSlot) ==
    [s EXCEPT !.uniformBlockEntries =
        Append(@, [cb |-> cb, bindStage |-> bindStage, bindSlot |-> bindSlot])]

\* shader::Clear
Clear(s) == EmptyShader

\* A new device object of the given kind, created for resource r.
NewObj(kind, width, r) == [kind |-> kind, width |-> width, rel |-> 0, res |-> r]

\* ------------------------------------------------------ SetupResource
\* Mutant of SRLoopHead: the uniform blocks come first, the programs are
\* not reached.
SRLoopHeadBlocksFirst(progIndex, numProgs, i, numBlocks) ==
    IF i < numBlocks THEN "sr_cb" ELSE "sr_ret"

\* Mutant of SRLoopHead: the uniform block loop is left out.
SRLoopHeadNoBlocks(progIndex, numProgs, i, numBlocks) ==
    IF progIndex < numProgs THEN "sr_vs" ELSE "sr_ret"

\* Where SetupResource goes once the program at progIndex is done with:
\* the next program, then the uniform blocks, then the return.
SRLoopHead(progIndex, numProgs, i, numBlocks) ==
    IF progIndex < numProgs THEN "sr_vs"
    ELSE IF i < numBlocks THEN "sr_cb"
    ELSE "sr_ret"

\* Mutant of SRAfterAsserts: the invalidation is left out.
SRAfterAssertsNoInvalidate == "sr_progs"

\* Lines 52-53 done: the first statement that follows.
SRAfterAsserts == "sr_invalidate"

\* Mutant of EntryAssertsTrip: the entry assertions are missing.
EntryAssertsMissing == FALSE

\* The factory's two entry assertions (o_assert_dbg, debug builds only).
EntryAssertsTrip == DebugAsserts /\ (~isValid \/ d3d11Device = "null")

\* Mutant of Succeeded: the result of the device call is ignored.
SucceededIgnored(ok) == TRUE

\* SUCCEEDED(hr)
Succeeded(ok) == ok

\* Mutant of ShaderPair: the two stage objects change places.
ShaderPairSwapped(prog, vs, ps) == [mask |-> prog.mask, vs |-> ps, ps |-> vs]

\* The arguments of addShaders at line 85.
ShaderPair(prog, vs, ps) == [mask |-> prog.mask, vs |-> vs, ps |-> ps]

\* Mutant of NeedsBuffer: the slot is not looked at.
NeedsBufferAlways(block) == TRUE

\* Line 97: the block needs a device buffer.
NeedsBuffer(block) == block.slot # InvalidIndex

\* Mutant of CbByteWidth: the size is rounded down, not up.
CbByteWidthRoundedDown(byteSize) == byteSize - (byteSize % CBAlign)

\* Line 101: the ByteWidth asked of the device.
CbByteWidth(byteSize) == RoundUp(byteSize, CBAlign)

\* Mutant of FactoryMembers: the call leaves the factory discarded.
FactoryMembersDiscarded ==
    [isValid |-> FALSE, pointers |-> [renderer |-> "null"], d3d11Device |-> "null"]

\* Lines 50-118 and 121-151 assign none of the factory's members: what
\* SetupResource and DestroyResource return with.
FactoryMembers ==
    [isValid |-> isValid, pointers |-> pointers, d3d11Device |-> d3d11Device]

\* The caller has put description d into shd.Setup and calls SetupResource.
SetupResourceEnter(r, d) ==
    /\ Idle
    /\ Len(objs) + NumDeviceCalls(d) <= MaxObjs
    /\ shd' = [shd EXCEPT ![r].Setup = d]
    /\ log' = <<>>
    /\ call' = [Entered("SetupResource", r)
                  EXCEPT !.abort = IF EntryAssertsTrip THEN "assert_dbg" ELSE "none"]
    /\ pc' = IF EntryAssertsTrip THEN "aborted" ELSE SRAfterAsserts
    /\ UNCHANGED <<app, dbg, isValid, pointers, d3d11Device, renderer, objs, ub>>

\* Line 56.  Through a null renderer pointer the call is undefined: the
\* process faults, or runs on with no renderer invalidated.
SR_Invalidate ==
    /\ pc = "sr_invalidate"
    /\ IF pointers.renderer = "null"
       THEN \/ /\ Abort("fault")
               /\ UNCHANGED <<renderer, log, ub>>
            \/ /\ ub' = TRUE
               /\ pc' = "sr_progs"
               /\ log' = Append(log, Event("invalidateShaderState", 0, Null, FALSE, 0))
               /\ UNCHANGED <<renderer, call>>
       ELSE /\ renderer' = InvalidateShaderState(renderer)
            /\ log' = Append(log, Event("invalidateShaderState", 0, Null, TRUE, 0))
            /\ pc' = "sr_progs"
            /\ UNCHANGED <<call, ub>>
    /\ UNCHANGED <<app, dbg, isValid, pointers, d3d11Device, shd, objs>>

\* Lines 57-62: the description is read and the program loop is entered.
SR_Programs ==
    /\ pc = "sr_progs"
    /\ LET setup == shd[call.res].Setup
       IN  /\ call' = [call EXCEPT !.numProgs = NumPrograms(setup), !.progIndex = 0]
           /\ pc' = SRLoopHead(0, NumPrograms(setup), 0, NumUniformBlocks(setup))
    /\ UNCHANGED <<app, dbg, isValid, pointers, d3d11Device, renderer, shd, objs, log, ub>>

\* Lines 65-72: the vertex shader of program progIndex.
SR_CreateVS ==
    /\ pc = "sr_vs"
    /\ LET r == call.res
           prog == shd[r].Setup.progs[call.progIndex + 1]
           id == Len(objs) + 1
       IN  IF DebugAsserts /\ prog.vsPtr = Null
           THEN Abort("assert_dbg") /\ UNCHANGED <<objs, log, ub>>
           ELSE IF d3d11Device = "null"
           THEN \/ Abort("fault") /\ UNCHANGED <<objs, log, ub>>
                \/ /\ ub' = TRUE
                   /\ call' = [call EXCEPT !.vs = Null]
                   /\ pc' = "sr_ps"
                   /\ UNCHANGED <<objs, log>>
           ELSE \E ok \in BOOLEAN :
                  LET vs == IF ok THEN id ELSE Null
                  IN  /\ objs' = IF ok THEN Append(objs, NewObj("vs", 0, r)) ELSE objs
                      /\ log' = Append(log, Event("CreateVertexShader", call.progIndex, vs, ok, 0))
                      /\ IF ~Succeeded(ok) THEN Abort("assert")
                         ELSE IF DebugAsserts /\ vs = Null THEN Abort("assert_dbg")
                         ELSE /\ call' = [call EXCEPT !.vs = vs]
                              /\ pc' = "sr_ps"
                      /\ UNCHANGED ub
    /\ UNCHANGED <<app, dbg, isValid, pointers, d3d11Device, renderer, shd>>

\* Lines 75-85: the pixel shader of program progIndex, and addShaders.
SR_CreatePS ==
    /\ pc = "sr_ps"
    /\ LET r == call.res
           setup == shd[r].Setup
           prog == setup.progs[call.progIndex + 1]
           id == Len(objs) + 1
           added(ps) ==
               LET pair == ShaderPair(prog, call.vs, ps)
               IN  /\ shd' = [shd EXCEPT ![r] = AddShaders(@, pair.mask, pair.vs, pair.ps)]
                   /\ call' = [call EXCEPT !.progIndex = @ + 1, !.vs = Null]
                   /\ pc' = SRLoopHead(call.progIndex + 1, call.numProgs,
                                       0, NumUniformBlocks(setup))
       IN  IF DebugAsserts /\ prog.psPtr = Null
           THEN Abort("assert_dbg") /\ UNCHANGED <<objs, log, ub, shd>>
           ELSE IF d3d11Device = "null"
           THEN \/ Abort("fault") /\ UNCHANGED <<objs, log, ub, shd>>
                \/ /\ ub' = TRUE
                   /\ added(Null)
                   /\ UNCHANGED <<objs, log>>
           ELSE \E ok \in BOOLEAN :
                  LET ps == IF ok THEN id ELSE Null
                  IN  /\ objs' = IF ok THEN Append(objs, NewObj("ps", 0, r)) ELSE objs
                      /\ log' = Append(log, Event("CreatePixelShader", call.progIndex, ps, ok, 0))
                      /\ IF ~Succeeded(ok) THEN Abort("assert") /\ UNCHANGED shd
                         ELSE IF DebugAsserts /\ ps = Null
                         THEN Abort("assert_dbg") /\ UNCHANGED shd
                         ELSE added(ps)
                      /\ UNCHANGED ub
    /\ UNCHANGED <<app, dbg, isValid, pointers, d3d11Device, renderer>>

\* Lines 92-113: uniform block i, its constant buffer and its entry.
SR_UniformBlock ==
    /\ pc = "sr_cb"
    /\ LET r == call.res
           setup == shd[r].Setup
           block == setup.ubs[call.i + 1]
           id == Len(objs) + 1
           width == CbByteWidth(block.byteSize)
           added(cb) ==
               /\ shd' = [shd EXCEPT ![r] = AddUniformBlockEntry(@, cb, block.stage, block.slot)]
               /\ call' = [call EXCEPT !.i = @ + 1]
               /\ pc' = SRLoopHead(call.numProgs, call.numProgs,
                                   call.i + 1, NumUniformBlocks(setup))
       IN  IF ~NeedsBuffer(block)
           THEN added(Null) /\ UNCHANGED <<objs, log, ub>>
           ELSE IF DebugAsserts /\ ~(block.byteSize > 0)
           THEN Abort("assert_dbg") /\ UNCHANGED <<objs, log, ub, shd>>
           ELSE IF d3d11Device = "null"
           THEN \/ Abort("fault") /\ UNCHANGED <<objs, log, ub, shd>>
                \/ /\ ub' = TRUE
                   /\ added(Null)
                   /\ UNCHANGED <<objs, log>>
           ELSE \E ok \in BOOLEAN :
                  LET cb == IF ok THEN id ELSE Null
                  IN  /\ objs' = IF ok THEN Append(objs, NewObj("cb", width, r)) ELSE objs
                      /\ log' = Append(log, Event("CreateBuffer", call.i, cb, ok, width))
                      /\ IF ~Succeeded(ok) THEN Abort("assert") /\ UNCHANGED shd
                         ELSE IF DebugAsserts /\ cb = Null
                         THEN Abort("assert_dbg") /\ UNCHANGED shd
                         ELSE added(cb)
                      /\ UNCHANGED ub
    /\ UNCHANGED <<app, dbg, isValid, pointers, d3d11Device, renderer>>

\* Lines 115-117: the entry-count assertion, and the return of Valid.
SR_Return ==
    /\ pc = "sr_ret"
    /\ LET s == shd[call.res]
       IN  IF DebugAsserts /\ Len(s.uniformBlockEntries) # NumUniformBlocks(s.Setup)
           THEN Abort("assert_dbg")
           ELSE /\ call' = [call EXCEPT !.result = "Valid"]
                /\ pc' = "done"
    /\ isValid' = FactoryMembers.isValid
    /\ pointers' = FactoryMembers.pointers
    /\ d3d11Device' = FactoryMembers.d3d11Device
    /\ UNCHANGED <<app, dbg, renderer, shd, objs, log, ub>>

\* ---------------------------------------------------- DestroyResource
\* Where DestroyResource goes once the program at progIndex is done with.
DRLoopHead(progIndex, numProgs, cbIndex, numCB) ==
    IF progIndex < numProgs THEN "dr_prog"
    ELSE IF cbIndex < numCB THEN "dr_cb"
    ELSE "dr_clear"

\* Mutant of DRAfterAsserts: the invalidation is left out.
DRAfterAssertsNoInvalidate == "dr_progs"

\* Lines 123-124 done: the first statement that follows.
DRAfterAsserts == "dr_invalidate"

\* Mutant of ShouldRelease: nothing is released.
ShouldReleaseNever(obj) == FALSE

\* Mutant of ShouldRelease: the null check is missing.
ShouldReleaseUnchecked(obj) == TRUE

\* Lines 131, 135 and 145: only a non-null object is released.
ShouldRelease(obj) == obj # Null

\* IUnknown::Release on the objects named: each loses the one reference it
\* was created with.
Released(os, ids) ==
    [id \in 1..Len(os) |->
        IF id \in ids THEN [os[id] EXCEPT !.rel = @ + 1] ELSE os[id]]

\* Release through a null pointer, or on an object already released, is
\* undefined.
BadRelease(ids) ==
    \/ Null \in ids
    \/ \E id \in ids \ {Null} : objs[id].rel > 0

\* The Release events for the objects of seq, in order, nulls left out.
RECURSIVE ReleaseEvents(_, _)
ReleaseEvents(seq, idx) ==
    IF seq = <<>> THEN <<>>
    ELSE (IF ShouldRelease(Head(seq))
          THEN <<Event("Release", idx, Head(seq), TRUE, 0)>> ELSE <<>>)
         \o ReleaseEvents(Tail(seq), idx)

DestroyResourceEnter(r) ==
    /\ Idle
    /\ log' = <<>>
    /\ call' = [Entered("DestroyResource", r)
                  EXCEPT !.abort = IF EntryAssertsTrip THEN "assert_dbg" ELSE "none"]
    /\ pc' = IF EntryAssertsTrip THEN "aborted" ELSE DRAfterAsserts
    /\ UNCHANGED <<app, dbg, isValid, pointers, d3d11Device, renderer, shd, objs, ub>>

\* Line 126.
DR_Invalidate ==
    /\ pc = "dr_invalidate"
    /\ IF pointers.renderer = "null"
       THEN \/ /\ Abort("fault")
               /\ UNCHANGED <<renderer, log, ub>>
            \/ /\ ub' = TRUE
               /\ pc' = "dr_progs"
               /\ log' = Append(log, Event("invalidateShaderState", 0, Null, FALSE, 0))
               /\ UNCHANGED <<renderer, call>>
       ELSE /\ renderer' = InvalidateShaderState(renderer)
            /\ log' = Append(log, Event("invalidateShaderState", 0, Null, TRUE, 0))
            /\ pc' = "dr_progs"
            /\ UNCHANGED <<call, ub>>
    /\ UNCHANGED <<app, dbg, isValid, pointers, d3d11Device, shd, objs>>

\* Lines 128 and 142: the two entry counts are read (nothing changes them
\* in between) and the program loop is entered.
DR_Programs ==
    /\ pc = "dr_progs"
    /\ LET s == shd[call.res]
           np == Len(s.programEntries)
           nc == Len(s.uniformBlockEntries)
       IN  /\ call' = [call EXCEPT !.numProgs = np, !.numCB = nc]
           /\ pc' = DRLoopHead(0, np, 0, nc)
    /\ UNCHANGED <<app, dbg, isValid, pointers, d3d11Device, renderer, shd, objs, log, ub>>

\* Lines 130-137: the two stage objects of program progIndex.
DR_Program ==
    /\ pc = "dr_prog"
    /\ LET e == shd[call.res].programEntries[call.progIndex + 1]
           pair == <<e.vs, e.ps>>
           ids == {pair[k] : k \in {k \in 1..2 : ShouldRelease(pair[k])}}
       IN  /\ objs' = Released(objs, ids)
           /\ log' = log \o ReleaseEvents(pair, call.progIndex)
           /\ ub' = (ub \/ BadRelease(ids))
    /\ call' = [call EXCEPT !.progIndex = @ + 1]
    /\ pc' = DRLoopHead(call.progIndex + 1, call.numProgs, 0, call.numCB)
    /\ UNCHANGED <<app, dbg, isValid, pointers, d3d11Device, renderer, shd>>

\* Lines 144-147: the constant buffer of uniform block entry cbIndex.
DR_UniformBlock ==
    /\ pc = "dr_cb"
    /\ LET cb == shd[call.res].uniformBlockEntries[call.i + 1].cb
           ids == IF ShouldRelease(cb) THEN {cb} ELSE {}
       IN  /\ objs' = Released(objs, ids)
           /\ log' = log \o ReleaseEvents(<<cb>>, call.i)
           /\ ub' = (ub \/ BadRelease(ids))
    /\ call' = [call EXCEPT !.i = @ + 1]
    /\ pc' = DRLoopHead(call.numProgs, call.numProgs, call.i + 1, call.numCB)
    /\ UNCHANGED <<app, dbg, isValid, pointers, d3d11Device, renderer, shd>>

\* Mutant of Cleared: the resource keeps its entries.
ClearedNot(s) == s

\* Line 150: the resource once its objects are released.
Cleared(s) == Clear(s)

\* Line 150, and the return.
DR_Clear ==
    /\ pc = "dr_clear"
    /\ shd' = [shd EXCEPT ![call.res] = Cleared(@)]
    /\ pc' = "done"
    /\ isValid' = FactoryMembers.isValid
    /\ pointers' = FactoryMembers.pointers
    /\ d3d11Device' = FactoryMembers.d3d11Device
    /\ UNCHANGED <<app, dbg, renderer, objs, call, log, ub>>

\* The call has returned to its caller.
Return ==
    /\ pc = "done"
    /\ pc' = "idle"
    /\ call' = NoCall
    /\ log' = <<>>
    /\ UNCHANGED <<app, dbg, isValid, pointers, d3d11Device, renderer, shd, objs, ub>>

Next ==
    \/ Setup
    \/ Discard
    \/ \E r \in Res : \E d \in Setups : SetupResourceEnter(r, d)
    \/ SR_Invalidate
    \/ SR_Programs
    \/ SR_CreateVS
    \/ SR_CreatePS
    \/ SR_UniformBlock
    \/ SR_Return
    \/ \E r \in Res : DestroyResourceEnter(r)
    \/ DR_Invalidate
    \/ DR_Programs
    \/ DR_Program
    \/ DR_UniformBlock
    \/ DR_Clear
    \/ \E r \in Res : \E k \in 1..Len(shd[r].programEntries) : Draw(r, k)
    \/ Return
    \/ Destructor

Spec == Init /\ [][Next]_vars

\* One resource, created from the one-variant descriptions whose single
\* block ranges over every byte size and both kinds of slot.
NextSizes ==
    \/ Setup
    \/ \E d \in SizeSetups : SetupResourceEnter(1, d)
    \/ SR_Invalidate
    \/ SR_Programs
    \/ SR_CreateVS
    \/ SR_CreatePS
    \/ SR_UniformBlock
    \/ SR_Return
    \/ DestroyResourceEnter(1)
    \/ DR_Invalidate
    \/ DR_Programs
    \/ DR_Program
    \/ DR_UniformBlock
    \/ DR_Clear
    \/ Return

SpecSizes == Init /\ [][NextSizes]_vars

\* ------------------------------------------------------ GPUParticlesApp
\* Mutant of BumpParticles: the count is not capped.
BumpParticlesUncapped(cur) == cur + NumParticlesEmittedPerFrame

\* Lines 62-65: bump number of active particles.
BumpParticles(cur) ==
    IF cur + NumParticlesEmittedPerFrame > MaxNumParticles
    THEN MaxNumParticles
    ELSE cur + NumParticlesEmittedPerFrame

\* Mutant of ReadIndex: the update reads the buffer it draws into.
ReadIndexOfDraw(frameCount) == frameCount % NumParticleBuffers

\* Line 68.
ReadIndex(frameCount) == (frameCount + 1) % NumParticleBuffers

\* Line 69.
DrawIndex(frameCount) == frameCount % NumParticleBuffers

\* Mutant of ScissorHeight: the partly filled row is left out.
ScissorHeightRowsFilled(cur) == cur \div NumParticlesX

\* Line 76.
ScissorHeight(cur) == (cur \div NumParticlesX) + 1

\* The factory takes no part in the sample's frames.
FactoryUnchanged ==
    UNCHANGED <<dbg, isValid, pointers, d3d11Device, renderer, shd, objs, pc, call, log, ub>>

\* OnInit: a missing feature ends the process in o_error; otherwise the
\* two particle buffers are created and the initial particle state is drawn
\* into both.
OnInit ==
    /\ app.state = "Init"
    /\ \E features \in BOOLEAN :
          app' = IF ~features
                 THEN [app EXCEPT !.state = "Error"]
                 ELSE [app EXCEPT !.state = "Running",
                                  !.particleBuffer = [b \in Buffers |-> b + 1],
                                  !.wrote = [b \in Buffers |-> 0]]
    /\ FactoryUnchanged

\* OnRunning: one frame.  The frame count stays far below the width of int.
OnRunning ==
    /\ app.state = "Running"
    /\ app.frameCount < MaxFrames
    /\ \E quitRequested \in BOOLEAN :
          LET frameCount == app.frameCount + 1
              curNumParticles == BumpParticles(app.curNumParticles)
              readIndex == ReadIndex(frameCount)
              drawIndex == DrawIndex(frameCount)
              scissorHeight == ScissorHeight(curNumParticles)
          IN  app' = [app EXCEPT
                        !.frameCount = frameCount,
                        !.curNumParticles = curNumParticles,
                        !.readIndex = readIndex,
                        !.drawIndex = drawIndex,
                        !.prevState = app.particleBuffer[readIndex],
                        !.readFrame = app.wrote[readIndex],
                        !.renderTarget = app.particleBuffer[drawIndex],
                        !.scissor = [x |-> 0, y |-> 0, width |-> ParticleBufferWidth,
                                     height |-> scissorHeight],
                        !.wrote = [app.wrote EXCEPT ![drawIndex] = frameCount],
                        !.vsTexture = app.particleBuffer[drawIndex],
                        !.instances = curNumParticles,
                        !.state = IF quitRequested THEN "Cleanup" ELSE "Running"]
    /\ FactoryUnchanged

OnCleanup ==
    /\ app.state = "Cleanup"
    /\ app' = [app EXCEPT !.state = "Destroy"]
    /\ FactoryUnchanged

NextParticles ==
    \/ OnInit
    \/ OnRunning
    \/ OnCleanup

SpecParticles == Init /\ [][NextParticles]_vars

\* ------------------------------------------------------------ properties
\* Vocabulary of the properties below.
CurSetup == shd[call.res].Setup

CurShd == shd[call.res]

InCreate == call.op = "SetupResource"

InDestroy == call.op = "DestroyResource"

\* A SetupResource call within its contract: the factory set up, the
\* description well formed, the resource empty on entry.
ContractCreate ==
    /\ InCreate
    /\ call.preValid
    /\ WellFormed(CurSetup)
    /\ call.preProgs = <<>>
    /\ call.preCBs = <<>>

CreateReturned == InCreate /\ pc = "done"

DestroyReturned == InDestroy /\ pc = "done"

DeviceCreates == {"CreateVertexShader", "CreatePixelShader", "CreateBuffer"}

LogIdx(evs) == {k \in 1..Len(log) : log[k].ev \in evs}

\* The non-null objects held by a resource's entries.
HeldBy(progEntries, cbEntries) ==
    ({progEntries[k].vs : k \in 1..Len(progEntries)}
       \cup {progEntries[k].ps : k \in 1..Len(progEntries)}
       \cup {cbEntries[k].cb : k \in 1..Len(cbEntries)}) \ {Null}

\* C1: a SetupResource call on an empty resource with a well-formed
\* description of P programs and U uniform blocks returns with exactly P
\* program entries and U uniform block entries; entry i holds the mask of
\* program i and the vertex and pixel shader created for program i, and
\* uniform entry i holds the stage and the slot of block i.
C1_CreatePopulatesInOrder ==
    (CreateReturned /\ ContractCreate) =>
        /\ Len(CurShd.programEntries) = NumPrograms(CurSetup)
        /\ Len(CurShd.uniformBlockEntries) = NumUniformBlocks(CurSetup)
        /\ \A k \in 1..NumPrograms(CurSetup) :
              LET e == CurShd.programEntries[k]
              IN  /\ e.mask = CurSetup.progs[k].mask
                  /\ \E j \in LogIdx({"CreateVertexShader"}) :
                        log[j].idx = k - 1 /\ log[j].ok /\ log[j].obj = e.vs
                  /\ \E j \in LogIdx({"CreatePixelShader"}) :
                        log[j].idx = k - 1 /\ log[j].ok /\ log[j].obj = e.ps
                  /\ e.vs # Null /\ objs[e.vs].kind = "vs"
                  /\ e.ps # Null /\ objs[e.ps].kind = "ps"
        /\ \A k \in 1..NumUniformBlocks(CurSetup) :
              LET e == CurShd.uniformBlockEntries[k]
              IN  /\ e.bindStage = CurSetup.ubs[k].stage
                  /\ e.bindSlot = CurSetup.ubs[k].slot

\* C1 witness: the call has returned for two programs, and for two blocks.
C1_Witness ==
    /\ CreateReturned /\ ContractCreate
    /\ \/ NumPrograms(CurSetup) = 2
       \/ NumUniformBlocks(CurSetup) = 2

\* C2: after a SetupResource call within its contract has returned, uniform
\* entry i has a null buffer exactly when block i has slot InvalidIndex, and
\* the device was asked for exactly one buffer for every other block and
\* for none for an InvalidIndex block.
C2_BufferIffBound ==
    (CreateReturned /\ ContractCreate) =>
        \A k \in 1..NumUniformBlocks(CurSetup) :
            LET e == CurShd.uniformBlockEntries[k]
                made == {j \in LogIdx({"CreateBuffer"}) : log[j].idx = k - 1}
            IN  /\ (e.cb = Null) <=> (CurSetup.ubs[k].slot = -1)
                /\ Cardinality(made) = IF CurSetup.ubs[k].slot = -1 THEN 0 ELSE 1
                /\ \A j \in made : log[j].obj = e.cb /\ objs[e.cb].kind = "cb"

\* C2 witness: returned with one buffer entry set and one null.
C2_Witness ==
    /\ CreateReturned /\ ContractCreate
    /\ \E k, m \in 1..Len(CurShd.uniformBlockEntries) :
          CurShd.uniformBlockEntries[k].cb # Null /\ CurShd.uniformBlockEntries[m].cb = Null

\* C3: every buffer asked of the device for a block of byteSize > 0 has a
\* ByteWidth that is a multiple of 16, at least byteSize and less than
\* byteSize + 16; the buffer created has that width.
C3_WidthRoundedUpTo16 ==
    InCreate =>
        \A j \in LogIdx({"CreateBuffer"}) :
            LET n == CurSetup.ubs[log[j].idx + 1].byteSize
            IN  n > 0 =>
                  /\ log[j].width % 16 = 0
                  /\ log[j].width >= n
                  /\ log[j].width < n + 16
                  /\ log[j].ok => objs[log[j].obj].width = log[j].width

\* C3 witness: 20 bytes were asked for and 32 requested; likewise 16 and 16.
C3_Witness ==
    /\ InCreate
    /\ \E j \in LogIdx({"CreateBuffer"}) :
          /\ log[j].ok
          /\ \/ CurSetup.ubs[log[j].idx + 1].byteSize = 20 /\ log[j].width = 32
             \/ CurSetup.ubs[log[j].idx + 1].byteSize = 16 /\ log[j].width = 16

\* C4: when DestroyResource returns the resource has no program entry and
\* no uniform block entry; the call made exactly one Release for every
\* non-null object the resource held and none for a null entry; and every
\* device object ever created for the resource has been released exactly
\* once.
C4_DestroyReleasesEachOnce ==
    DestroyReturned =>
        LET held == HeldBy(call.preProgs, call.preCBs)
            rels == LogIdx({"Release"})
        IN  /\ CurShd.programEntries = <<>>
            /\ CurShd.uniformBlockEntries = <<>>
            /\ \A id \in held : Cardinality({j \in rels : log[j].obj = id}) = 1
            /\ \A j \in rels : log[j].obj \in held
            /\ \A id \in 1..Len(objs) : objs[id].res = call.res => objs[id].rel = 1

\* C4 witness: a destroy has returned for a resource that held two stage
\* objects, one buffer and one null buffer entry.
C4_Witness ==
    /\ DestroyReturned
    /\ Len(call.preProgs) = 1
    /\ Len(call.preCBs) = 2
    /\ Cardinality(HeldBy(call.preProgs, call.preCBs)) = 3
    /\ Cardinality(LogIdx({"Release"})) = 3

\* C5: in a SetupResource or DestroyResource call, every device creation
\* call and every Release comes after the call's invalidateShaderState; a
\* call that got past its entry assertions and made any renderer or device
\* call made invalidateShaderState first.
C5_InvalidateFirst ==
    (InCreate \/ InDestroy) =>
        /\ \A k \in LogIdx(DeviceCreates \cup {"Release"}) :
              \E j \in 1..(k - 1) : log[j].ev = "invalidateShaderState"
        /\ log # <<>> => log[1].ev = "invalidateShaderState"
        /\ pc \notin {"idle", "aborted", "sr_invalidate", "dr_invalidate"} => log # <<>>

\* C5 witness: a destroy that has released something, and before it the
\* invalidation.
C5_Witness ==
    /\ InDestroy
    /\ LogIdx({"Release"}) # {}
    /\ log[1].ev = "invalidateShaderState"

\* The objects the renderer has cached as bound.
Bound == {renderer.d3d11CurVertexShader, renderer.d3d11CurPixelShader} \ {Null}

\* C6: as long as the behaviour is defined, the renderer's cached binding
\* refers to no released object, in every state, the states inside a call
\* included.
C6_NoDanglingBinding ==
    ~ub => \A id \in Bound : objs[id].rel = 0

\* C6 witness: a destroy released the objects that were bound when it was
\* entered, and the binding is gone.
C6_Witness ==
    /\ InDestroy /\ ~ub
    /\ call.preVS # Null /\ objs[call.preVS].rel = 1
    /\ call.prePS # Null /\ objs[call.prePS].rel = 1
    /\ Bound = {}

\* C7: a SetupResource call within its contract ends in one of two ways.
\* It returns Valid, every device call having succeeded and every program
\* and block having its entry; or it stops at the first device creation
\* call that fails: the failed call is the last call made, none is made
\* twice, and the process is aborted by the assertion on the result.  No
\* other result value exists and no return leaves fewer entries.
C7_ValidOrAbortAtFirstFailure ==
    ContractCreate =>
        LET failed == {k \in LogIdx(DeviceCreates) : ~log[k].ok}
        IN  /\ call.result \in {"none", "Valid"}
            /\ (call.result = "Valid") <=> (pc = "done")
            /\ pc = "done" =>
                  /\ failed = {}
                  /\ Len(CurShd.programEntries) = NumPrograms(CurSetup)
                  /\ Len(CurShd.uniformBlockEntries) = NumUniformBlocks(CurSetup)
            /\ failed # {} => failed = {Len(log)} /\ pc = "aborted" /\ call.abort = "assert"
            /\ pc = "aborted" => failed # {}
            /\ \A j, k \in LogIdx(DeviceCreates) :
                  (log[j].ev = log[k].ev /\ log[j].idx = log[k].idx) => j = k

\* C7 witness: the call was aborted at a failing CreateBuffer, after the
\* stage objects had been created.
C7_Witness ==
    /\ ContractCreate
    /\ pc = "aborted"
    /\ Len(log) = 4
    /\ log[4].ev = "CreateBuffer" /\ ~log[4].ok

\* C8 (as claimed): a SetupResource call, on a factory that is set up, with
\* a description without programs makes no device creation call and does
\* not return Valid.
C8_NoProgramsRejected ==
    (InCreate /\ call.preValid /\ NumPrograms(CurSetup) = 0) =>
        /\ LogIdx(DeviceCreates) = {}
        /\ call.result # "Valid"

\* What C9 says of the call last entered: Setup on a factory that is set
\* up, and Discard on one that is not, trip the assertion and change
\* nothing; otherwise Setup leaves the factory set up and Discard leaves it
\* not set up.
LifecycleAlternates ==
    /\ call.op = "Setup" =>
          IF call.preValid
          THEN pc = "aborted" /\ call.abort = "assert_dbg" /\ isValid
          ELSE pc = "done" /\ isValid /\ d3d11Device = "device"
                 /\ pointers.renderer = "renderer"
    /\ call.op = "Discard" =>
          IF call.preValid
          THEN pc = "done" /\ ~isValid /\ d3d11Device = "null"
                 /\ pointers.renderer = "null"
          ELSE pc = "aborted" /\ call.abort = "assert_dbg" /\ ~isValid

\* C9 (as claimed): in every build the factory's lifecycle alternates
\* strictly, a Setup on a set-up factory and a Discard on one that is not
\* set up being stopped by the assertion.
C9_LifecycleAlternates == LifecycleAlternates

\* C9 (amended): in a build with o_assert_dbg compiled in the factory's
\* lifecycle alternates strictly, a Setup on a set-up factory and a Discard
\* on one that is not set up being stopped by the assertion.
C9_LifecycleAlternatesInDebug == DebugAsserts => LifecycleAlternates

\* C9 witness: in a debug build a Setup on a set-up factory was stopped.
C9_Witness ==
    /\ DebugAsserts
    /\ call.op = "Setup" /\ call.preValid
    /\ pc = "aborted"

\* What C10 says of the call last entered: SetupResource and
\* DestroyResource on a factory that is not set up trip the entry
\* assertion, with no renderer or device call made and the resource's
\* entries and objects untouched.
NotSetUpAsserts ==
    ((InCreate \/ InDestroy) /\ ~call.preValid) =>
        /\ pc = "aborted"
        /\ call.abort = "assert_dbg"
        /\ log = <<>>
        /\ CurShd.programEntries = call.preProgs
        /\ CurShd.uniformBlockEntries = call.preCBs
        /\ \A id \in HeldBy(call.preProgs, call.preCBs) : objs[id].rel = 0

\* C10 (as claimed): in every build SetupResource and DestroyResource on a
\* factory that is not set up are stopped by the entry assertion before
\* any renderer or device call and any change to the resource.
C10_NotSetUpAsserts == NotSetUpAsserts

\* C10 (amended): in a build with o_assert_dbg compiled in SetupResource
\* and DestroyResource on a factory that is not set up are stopped by the
\* entry assertion before any renderer or device call and any change to
\* the resource.
C10_NotSetUpAssertsInDebug == DebugAsserts => NotSetUpAsserts

\* C10 witness: in a debug build DestroyResource on a discarded factory was
\* stopped with the resource still holding its objects.
C10_Witness ==
    /\ DebugAsserts
    /\ InDestroy /\ ~call.preValid
    /\ pc = "aborted"
    /\ HeldBy(call.preProgs, call.preCBs) # {}

\* The unreleased device objects held by the entries of some resource.
HeldLive ==
    {id \in UNION {HeldBy(shd[r].programEntries, shd[r].uniformBlockEntries) : r \in Res} :
        objs[id].rel = 0}

C12_LengthsMatchDescription ==
    (CreateReturned /\ call.preValid /\ WellFormed(CurSetup)) =>
        /\ Len(CurShd.programEntries) = NumPrograms(CurSetup)
        /\ Len(CurShd.uniformBlockEntries) = NumUniformBlocks(CurSetup)

\* C12 (amended): SetupResource appends.  Whenever a call on a set-up
\* factory with a well-formed description has returned, the resource has
\* the entries it had on entry plus one per program and one per uniform
\* block, so the lengths are those of the description exactly when the
\* resource was empty on entry; a build with o_assert_dbg compiled in
\* returns only with as many uniform block entries as the description has
\* uniform blocks.
C12_LengthsGrowByDescription ==
    (CreateReturned /\ call.preValid /\ WellFormed(CurSetup)) =>
        /\ Len(CurShd.programEntries) = Len(call.preProgs) + NumPrograms(CurSetup)
        /\ Len(CurShd.uniformBlockEntries) = Len(call.preCBs) + NumUniformBlocks(CurSetup)
        /\ DebugAsserts => Len(CurShd.uniformBlockEntries) = NumUniformBlocks(CurSetup)

\* C12 witness: SetupResource with a well-formed description has returned
\* on a resource that was populated already, leaving more program entries
\* than the description has programs.
C12_Witness ==
    /\ CreateReturned /\ call.preValid /\ WellFormed(CurSetup)
    /\ call.preProgs # <<>>
    /\ Len(CurShd.programEntries) > NumPrograms(CurSetup)

\* C13: DestroyResource on a resource that is already empty releases
\* nothing and leaves it empty; so a DestroyResource that follows a
\* DestroyResource on the same resource leaves every device object created
\* for the resource released exactly once.
C13_DestroyOnEmptyReleasesNothing ==
    (DestroyReturned /\ call.preValid) =>
        /\ (call.preProgs = <<>> /\ call.preCBs = <<>>) =>
              /\ LogIdx({"Release"}) = {}
              /\ CurShd.programEntries = <<>>
              /\ CurShd.uniformBlockEntries = <<>>
        /\ \A id \in 1..Len(objs) : objs[id].res = call.res => objs[id].rel = 1
        /\ ~ub

\* C13 witness: DestroyResource has returned on an empty resource whose
\* device objects an earlier DestroyResource released.
C13_Witness ==
    /\ DestroyReturned /\ call.preValid
    /\ call.preProgs = <<>> /\ call.preCBs = <<>>
    /\ \E id \in 1..Len(objs) : objs[id].res = call.res /\ objs[id].rel = 1

\* The non-null device objects held by the entries of resource r.
Held(r) == HeldBy(shd[r].programEntries, shd[r].uniformBlockEntries)

\* The device objects created and not released.
Live == {id \in 1..Len(objs) : objs[id].rel = 0}

\* C14: with several resources sharing the device, whenever no call is
\* running the live device objects are exactly the objects held by the
\* resources, each held by the one resource it was created for and by no
\* other; a DestroyResource that has returned released objects of its own
\* resource only and left those of every other resource live.
C14_LiveObjectsAreHeldObjects ==
    /\ (pc \in {"idle", "done"} /\ ~ub) =>
          /\ Live = UNION {Held(r) : r \in Res}
          /\ \A r \in Res : \A id \in Held(r) : objs[id].res = r
          /\ \A r1, r2 \in Res : r1 # r2 => Held(r1) \cap Held(r2) = {}
    /\ (DestroyReturned /\ ~ub) =>
          /\ \A k \in LogIdx({"Release"}) : objs[log[k].obj].res = call.res
          /\ \A r \in Res \ {call.res} : \A id \in Held(r) : objs[id].rel = 0

\* C14 witness: DestroyResource has released the objects of one resource
\* while another resource holds live objects.
C14_Witness ==
    /\ DestroyReturned /\ ~ub
    /\ LogIdx({"Release"}) # {}
    /\ \E r \in Res \ {call.res} : Held(r) # {}

\* The device creation calls a description asks for, in the documented
\* order: for each program its vertex then its pixel shader, then one
\* buffer for each uniform block on a real slot, in block order.
RECURSIVE BufferCreates(_, _)
BufferCreates(ubs, i) ==
    IF ubs = <<>> THEN <<>>
    ELSE (IF Head(ubs).slot # InvalidIndex
          THEN <<[ev |-> "CreateBuffer", idx |-> i]>> ELSE <<>>)
         \o BufferCreates(Tail(ubs), i + 1)

ExpectedCreates(setup) ==
    [k \in 1..(2 * NumPrograms(setup)) |->
        IF k % 2 = 1 THEN [ev |-> "CreateVertexShader", idx |-> (k - 1) \div 2]
        ELSE [ev |-> "CreatePixelShader", idx |-> (k - 2) \div 2]]
    \o BufferCreates(setup.ubs, 0)

\* The device creation calls of the running call, in the order made.
CreatesMade == LET IsCreate(e) == e.ev \in DeviceCreates IN SelectSeq(log, IsCreate)

C16_FactoryStateFrame ==
    [][/\ (InCreate \/ InDestroy \/ InCreate' \/ InDestroy') =>
             UNCHANGED <<isValid, pointers, d3d11Device>>
       /\ <<isValid, pointers, d3d11Device>>' # <<isValid, pointers, d3d11Device>> =>
             call'.op \in {"Setup", "Discard"}]_vars

\* C16 witness: DestroyResource has released a resource's objects and
\* returned, the factory still set up with its renderer and device.
C16_Witness ==
    /\ DestroyReturned
    /\ LogIdx({"Release"}) # {}
    /\ isValid /\ pointers.renderer = "renderer" /\ d3d11Device = "device"

\* A frame of OnRunning has run.
FrameRan == app.frameCount >= 1

\* C17: after every frame of OnRunning readIndex and drawIndex are two
\* different indices of the particle buffers; the update read the buffer
\* the previous frame wrote (in the first frame the initial state) and wrote
\* the other one, which is the texture the draw pass samples.
C17_PingPong ==
    FrameRan =>
        /\ app.readIndex \in Buffers
        /\ app.drawIndex \in Buffers
        /\ app.readIndex # app.drawIndex
        /\ app.prevState = app.particleBuffer[app.readIndex]
        /\ app.renderTarget = app.particleBuffer[app.drawIndex]
        /\ app.prevState # app.renderTarget
        /\ app.readFrame = app.frameCount - 1
        /\ app.wrote[app.drawIndex] = app.frameCount
        /\ app.wrote[app.readIndex] = app.frameCount - 1
        /\ app.vsTexture = app.renderTarget

\* C17 witness: the third frame has read the buffer the second frame wrote
\* and written buffer 1.
C17_Witness ==
    /\ app.frameCount = 3
    /\ app.readFrame = 2
    /\ app.readIndex = 0 /\ app.drawIndex = 1
    /\ app.vsTexture = app.particleBuffer[1]

\* Frames it takes to reach MaxNumParticles.
FramesToCap ==
    (MaxNumParticles + NumParticlesEmittedPerFrame - 1) \div NumParticlesEmittedPerFrame

\* C18: curNumParticles stays within 0..MaxNumParticles; it is
\* NumParticlesEmittedPerFrame times the number of frames run until that
\* would pass MaxNumParticles and MaxNumParticles from then on, so it never
\* decreases, grows by NumParticlesEmittedPerFrame a frame below the cap,
\* reaches the cap after finitely many frames and stays there; a frame never
\* lowers it, and raises it by NumParticlesEmittedPerFrame or to the cap.
C18_ParticleCount ==
    /\ [](/\ app.curNumParticles >= 0
          /\ app.curNumParticles <= MaxNumParticles
          /\ app.curNumParticles =
                IF app.frameCount * NumParticlesEmittedPerFrame > MaxNumParticles
                THEN MaxNumParticles
                ELSE app.frameCount * NumParticlesEmittedPerFrame
          /\ app.frameCount >= FramesToCap => app.curNumParticles = MaxNumParticles
          /\ app.instances = (IF FrameRan THEN app.curNumParticles ELSE 0))
    /\ [][/\ app'.curNumParticles >= app.curNumParticles
          /\ app'.frameCount # app.frameCount =>
                \/ app'.curNumParticles = app.curNumParticles + NumParticlesEmittedPerFrame
                \/ app'.curNumParticles = MaxNumParticles]_vars

\* C18 witness: the cap was reached and a later frame has left the count
\* at the cap.
C18_Witness ==
    /\ app.frameCount > FramesToCap
    /\ app.curNumParticles = MaxNumParticles

\* The buffer row that holds particle n: a row holds NumParticlesX
\* particles, two texels each.
ParticleRow(n) == n \div NumParticlesX

\* The scissor rectangle of the update spans the width of the buffer and
\* encloses the row of the last active particle, hence of every active one.
ScissorEnclosesActive ==
    /\ app.scissor.x = 0 /\ app.scissor.y = 0
    /\ app.scissor.width = ParticleBufferWidth
    /\ app.scissor.height = (app.curNumParticles \div NumParticlesX) + 1
    /\ ParticleRow(app.curNumParticles - 1) < app.scissor.height

\* C19 (as claimed): after every frame the scissor rectangle encloses every
\* row that holds an active particle and its height never exceeds
\* ParticleBufferHeight.
C19_ScissorWithinBuffer ==
    FrameRan =>
        /\ ScissorEnclosesActive
        /\ app.scissor.height <= ParticleBufferHeight

\* C19 (amended): after every frame the scissor rectangle encloses every
\* row that holds an active particle; its height never exceeds
\* ParticleBufferHeight + 1, and it is ParticleBufferHeight + 1, one row
\* more than the buffer has, exactly when curNumParticles is
\* MaxNumParticles.
C19_ScissorAtMostOneRowBeyondBuffer ==
    FrameRan =>
        /\ ScissorEnclosesActive
        /\ app.scissor.height <= ParticleBufferHeight + 1
        /\ app.scissor.height > ParticleBufferHeight <=>
              app.curNumParticles = MaxNumParticles

\* C19 witness: with every particle active the scissor rectangle is one
\* row higher than the buffer.
C19_Witness ==
    /\ FrameRan
    /\ app.curNumParticles = MaxNumParticles
    /\ app.scissor.height = ParticleBufferHeight + 1
====
